---- MODULE Spec2Model ----
(***************************************************************************)
(* A model of the lyra-finance/cockpit vault executor:                     *)
(*   - OptionSelector     (lyra-vaults/src/lrtc/selector.rs)               *)
(*   - DepositReconciler  (lyra-vaults/src/web3/events.rs)                 *)
(*   - SpotRebalance      (lyra-vaults/src/shared/spot_auction.rs)         *)
(*   - auction spreads    (lyra-vaults/src/lrtc/params.rs)                 *)
(*   - OrderAuthorizer    (lyra-client/src/orders.rs)                      *)
(*   - VaultStateMachine  (lyra-vaults/src/lrtc/stages.rs, params.rs)      *)
(* Each component has its own specification over its own variables; the    *)
(* variables of the other components stay at their idle values.            *)
(***************************************************************************)
EXTENDS Integers, Sequences, FiniteSets

VARIABLES
    now,              \* chrono::Utc::now().timestamp(), unix seconds
    \* ---- OptionSelector
    params,           \* LRTCParams given to select_option
    options_res,      \* result of public/get_instruments
    tickers,          \* the market state select_option fills by subscription
    expiry,           \* the expiry bucket select_option settled on (0: none)
    selected_option,  \* what select_option returned
    \* ---- DepositReconciler
    block,            \* the chain's current block number
    initiated,        \* the chain's DepositInitiated log, oldest first
    processed,        \* the chain's DepositProcessed log
    poll,             \* what the last process_deposit_events call did
    drain,            \* the backlog a drain started from and the polls that
                      \* found deposits pending since (counted while a
                      \* drain is observed)
    \* ---- auctions
    option_params,    \* OptionAuctionParams (the IV spread schedule)
    spot_params,      \* SpotAuctionParams
    auction,          \* LimitOrderAuction: start_timestamp_sec, auction_sec
    market,           \* MarketState: the spot ticker (once it has arrived)
                      \* and the cash position
    pc,               \* where the auction tick stands: price, amount, done
    priced,           \* the cash position get_desired_price read
    desired_price,    \* what get_desired_price returned
    order,            \* what get_desired_amount returned
    seen,             \* the cash, price and remaining time it computed from
    iv_spread,        \* what get_iv_spread returned, in sixtieths
    spot_spread,      \* what get_spot_spread returned, in sixtieths
    \* ---- OrderAuthorizer
    clock,            \* chrono::Utc::now(), in microseconds
    env,              \* the process environment the signer reads
    issued,           \* the OrderParams / ReplaceParams returned so far
    attempt,          \* how the last new_order_params / new_replace_params ended
    \* ---- VaultStateMachine
    stage,            \* the active LRTCExecutorStage
    option_expiry     \* the expiry of the option the cycle is about

selVars == <<params, options_res, tickers, expiry, selected_option>>
depVars == <<block, initiated, processed, poll, drain>>
aucVars == <<option_params, spot_params, auction, market, pc, priced,
             desired_price, order, seen, iv_spread, spot_spread>>
authVars == <<clock, env, issued, attempt>>
vaultVars == <<stage, option_expiry>>
vars == <<now, selVars, depVars, aucVars, authVars, vaultVars>>

\* ------------------------------------------------------------------ helpers

Abs(x) == IF x < 0 THEN -x ELSE x

Min2(a, b) == IF a <= b THEN a ELSE b

Max2(a, b) == IF a >= b THEN a ELSE b

SetMax(S) == CHOOSE x \in S : \A y \in S : y <= x

\* --------------------------------------------------------- DepositReconciler

\* events.rs:7
MAX_TO_PROCESS_PER_CALL == 32

\* events.rs:12: the lookback of the two log queries, in blocks.
LOOKBACK_BLOCKS == 100000

\* The largest backlog of initiated deposits the chain starts with.
MaxDeposits == 34

\* Logs of at most SmallLog deposits also grow and are processed by other
\* keepers; longer logs are backlogs the chain starts with.
SmallLog == 4

\* How many times the chain height advances by BlockStep.
MaxMined == 2

StartBlock == LOOKBACK_BLOCKS - 1

BlockStep == LOOKBACK_BLOCKS

Range(s) == {s[k] : k \in 1..Len(s)}

\* The deposit ids of the events of a log (a sequence) from block `from` on:
\* filter.from_block(from).query() mapped to deposit_id (events.rs:13-20).
query_ids(log, from) ==
    LET found == SelectSeq(log, LAMBDA e : e.block >= from)
    IN [k \in 1..Len(found) |-> found[k].deposit_id]

\* The same for the processed log, of which the code only asks `contains`.
query_id_set(log, from) == {e.deposit_id : e \in {x \in log : x.block >= from}}

\* A reconciler that forgets to filter: every initiated id is pending.
pending_ids_unfiltered(inits, procs) == inits

\* events.rs:23: inits.into_iter().filter(|i| !procs.contains(i))
pending_ids(inits, procs) == SelectSeq(inits, LAMBDA i : i \notin procs)

\* A reconciler that submits the whole pending list.
take_all(s, n) == s

\* A reconciler whose batch is one short.
take_one_less(s, n) == SubSeq(s, 1, Min2(Len(s), n - 1))

\* events.rs:29: pending.into_iter().take(MAX_TO_PROCESS_PER_CALL)
take(s, n) == SubSeq(s, 1, Min2(Len(s), n))

\* events.rs:12: block - U64::from(100_000); U64 subtraction panics on
\* overflow, so the value exists only from block 100000 on.
from_block == block - LOOKBACK_BLOCKS

\* What one poll reads and derives from the chain as it stands.
PollInits == query_ids(initiated, from_block)

PollProcs == query_id_set(processed, from_block)

\* A reconciler that remembers what it submitted and skips it next time.
PollPendingSkippingSubmitted ==
    pending_ids(PollInits, PollProcs \cup Range(poll.batch))

PollPending == pending_ids(PollInits, PollProcs)

PollBatch == take(PollPending, MAX_TO_PROCESS_PER_CALL)

NoPoll ==
    [outcome |-> "none", inits |-> <<>>, procs |-> {}, pending |-> <<>>,
     batch |-> <<>>, estimates |-> 0, txs |-> 0, retry |-> FALSE]

\* No drain is observed.
NoDrain == [counting |-> FALSE, backlog |-> 0, polls |-> 0]

\* The outcomes of a poll that computed its pending list.
ComputedOutcomes ==
    {"noop", "estimate_err", "send_err", "receipt_err", "get_tx_err", "ok"}

\* The outcomes that return an error after the batch was built.
FailedOutcomes == {"estimate_err", "send_err", "receipt_err", "get_tx_err"}

\* The record of a poll that got as far as computing its pending list.
Polled(outcome, estimates, txs) ==
    [outcome |-> outcome, inits |-> PollInits, procs |-> PollProcs,
     pending |-> PollPending,
     batch |-> IF PollPending = <<>> THEN <<>> ELSE PollBatch,
     estimates |-> estimates, txs |-> txs,
     \* whether the poll before this one failed over the very same logs
     retry |-> /\ poll.outcome \in FailedOutcomes
               /\ poll.inits = PollInits
               /\ poll.procs = PollProcs]

\* The DepositProcessed events a mined process-deposits transaction emits.
ProcessedEvents(ids) == {[deposit_id |-> i, block |-> block] : i \in Range(ids)}

\* events.rs:9-41.  The outcomes: "panic" (the from-block subtraction
\* overflows), "query_err" (get_block_number or a log query fails), "noop"
\* (nothing pending, Ok), "estimate_err", "send_err", "receipt_err" (the
\* pending transaction fails or yields no receipt), "get_tx_err", "ok".
\* A transaction that was sent may be mined and record its batch, or revert.
process_deposit_events ==
    /\ IF block < LOOKBACK_BLOCKS
       THEN /\ poll' = [NoPoll EXCEPT !.outcome = "panic"]
            /\ UNCHANGED processed
       ELSE \/ /\ poll' = [NoPoll EXCEPT !.outcome = "query_err"]
               /\ UNCHANGED processed
            \/ /\ PollPending = <<>>
               /\ poll' = Polled("noop", 0, 0)
               /\ UNCHANGED processed
            \/ /\ PollPending # <<>>
               /\ poll' = Polled("estimate_err", 1, 0)
               /\ UNCHANGED processed
            \/ /\ PollPending # <<>>
               /\ poll' = Polled("send_err", 1, 0)
               /\ UNCHANGED processed
            \/ /\ PollPending # <<>>
               /\ \E out \in {"receipt_err", "get_tx_err", "ok"} :
                     poll' = Polled(out, 1, 1)
               /\ \/ processed' = processed \cup ProcessedEvents(PollBatch)
                  \/ UNCHANGED processed
    /\ drain' = IF drain.counting /\ poll'.pending # <<>>
                THEN [drain EXCEPT !.polls = @ + 1]
                ELSE drain
    /\ UNCHANGED <<authVars, vaultVars>>
    /\ UNCHANGED <<now, selVars, aucVars, block, initiated>>

\* A user initiates a deposit: the contract numbers it and logs it.  The
\* record of the last poll is kept only while the logs it read still stand.
InitiateDeposit ==
    /\ Len(initiated) < SmallLog
    /\ initiated' = Append(initiated,
                           [deposit_id |-> Len(initiated) + 1, block |-> block])
    /\ poll' = NoPoll
    /\ UNCHANGED <<authVars, vaultVars>>
    /\ UNCHANGED <<now, selVars, aucVars, block, processed, drain>>

\* Another keeper processes one initiated deposit.
ProcessedElsewhere ==
    /\ Len(initiated) <= SmallLog
    /\ \E k \in 1..Len(initiated) :
          /\ initiated[k].deposit_id \notin {e.deposit_id : e \in processed}
          /\ processed' = processed \cup ProcessedEvents(<<initiated[k].deposit_id>>)
    /\ poll' = NoPoll
    /\ UNCHANGED <<authVars, vaultVars>>
    /\ UNCHANGED <<now, selVars, aucVars, block, initiated, drain>>

\* The chain grows by BlockStep blocks.
MineBlocks ==
    /\ block < StartBlock + MaxMined * BlockStep
    /\ block' = block + BlockStep
    /\ UNCHANGED <<authVars, vaultVars>>
    /\ UNCHANGED <<now, selVars, aucVars, initiated, processed, poll, drain>>

\* A poll while the chain behaves: the node answers, the transaction is
\* mined, and it records its batch as processed.
SuccessfulPoll ==
    /\ process_deposit_events
    /\ poll'.outcome \in {"noop", "ok"}
    /\ poll'.outcome = "ok" =>
          processed' = processed \cup ProcessedEvents(poll'.batch)

\* ------------------------------------------------------------ OptionSelector

\* Number of instruments public/get_instruments returns.
MaxInstruments == 3

Instruments == 1..MaxInstruments

\* The clock reading select_option takes (selector.rs:22).
SelectNow == 1700000000

\* LRTCParams::expiry_sec
expiry_sec(p) == p.expiry_days * 86400

\* LRTCParams::min_expiry_sec
min_expiry_sec(p) == p.min_expiry_hours * 3600

\* Deltas are in hundredths: 35 is a live delta of 0.35.
LRTCParamsSet ==
    { [expiry_days |-> 7, min_expiry_hours |-> 24,
       target_delta |-> 30, max_delta |-> 40,
       spot_auction_delay_min |-> 60, option_auction_delay_min |-> 120] }

\* Expiries the instruments may carry, all in the future of SelectNow (the
\* request asks for "expired": false): below the minimum-expiry floor, two
\* inside the window (T1 < T2), exactly at the horizon, beyond the horizon.
ExpiryOffsets == {3600, 172800, 432000, 604800, 691200}

\* One row of InstrumentsResponse, as far as select_option reads it.  The
\* request asks for instrument_type "option", so option_details is present.
InstrumentRows ==
    [is_active : BOOLEAN, option_type : {"C", "P"},
     expiry : {SelectNow + o : o \in ExpiryOffsets}]

\* An inactive put fails the same two tests an inactive call and an active
\* put fail one each; the catalog leaves it out.
CatalogRows ==
    {r \in InstrumentRows : r.is_active \/ r.option_type = "C"}

\* What the market state holds for a subscribed instrument after the three
\* seconds select_option waits: nothing yet, a ticker without option
\* pricing, or a ticker with a live delta.
LiveDeltas == {20, 35, 50}

TickerStates ==
    {[has_ticker |-> FALSE, option_pricing |-> FALSE, delta |-> 0],
     [has_ticker |-> TRUE, option_pricing |-> FALSE, delta |-> 0]}
    \cup {[has_ticker |-> TRUE, option_pricing |-> TRUE, delta |-> d] :
            d \in LiveDeltas}

NoTicker == [has_ticker |-> FALSE, option_pricing |-> FALSE, delta |-> 0]

\* selector.rs:36-44: active calls expiring before now + horizon.
options_iter(p, res, t) ==
    {i \in Instruments :
        /\ res[i].is_active
        /\ res[i].option_type = "C"
        /\ res[i].expiry < t + expiry_sec(p)}

\* selector.rs:53-56: the instruments of the chosen expiry.
expiry_options(p, res, t, e) ==
    {i \in options_iter(p, res, t) : res[i].expiry = e}

\* selector.rs:63: the delta the selection filters by and aims at.  This
\* source reads one value (params.delta) for both.
desired_delta(p) == p.target_delta

\* selector.rs:67-73: tickers with option pricing and delta below desired.
delta_filter(p, tk) ==
    {i \in Instruments :
        /\ tk[i].has_ticker
        /\ tk[i].option_pricing
        /\ tk[i].delta < desired_delta(p)}

\* selector.rs:74-76: the candidates min_by_key may return (the iteration
\* order of the market's tickers decides between equal keys).
min_by_key(p, tk) ==
    {i \in delta_filter(p, tk) :
        \A j \in delta_filter(p, tk) :
            Abs(tk[i].delta - desired_delta(p))
                <= Abs(tk[j].delta - desired_delta(p))}

NotCalled == [status |-> "none", name |-> 0]

ErrNoOptions == [status |-> "err", name |-> 0]

\* selector.rs:19-81
select_option ==
    /\ selected_option = NotCalled
    /\ LET opts == options_iter(params, options_res, now)
       IN IF opts = {}
          THEN /\ expiry' = 0
               /\ tickers' = [i \in Instruments |-> NoTicker]
               /\ selected_option' = ErrNoOptions
          ELSE LET e == SetMax({options_res[i].expiry : i \in opts})
                   sub == expiry_options(params, options_res, now, e)
               IN /\ expiry' = e
                  /\ \E live \in [sub -> TickerStates] :
                        /\ tickers' = [i \in Instruments |->
                                         IF i \in sub THEN live[i] ELSE NoTicker]
                        /\ IF min_by_key(params, tickers') = {}
                           THEN selected_option' = ErrNoOptions
                           ELSE \E i \in min_by_key(params, tickers') :
                                  selected_option' = [status |-> "ok", name |-> i]
    /\ UNCHANGED <<authVars, vaultVars>>
    /\ UNCHANGED <<now, params, options_res, depVars, aucVars>>

\* ------------------------------------------------------------------ auctions

\* Decimals (BigDecimal prices, amounts, cash) are counted in units of
\* 10^-FracDigits; Unit is the decimal 1.
FracDigits == 1

RECURSIVE Pow10(_)
Pow10(n) == IF n <= 0 THEN 1 ELSE 10 * Pow10(n - 1)

Unit == Pow10(FracDigits)

\* Seconds between two clock readings, and how many readings follow the start.
ClockStep == 30

MaxClockSteps == 3

\* The largest spread value (in percent) of the spread schedules explored.
MaxSpread == 2

\* Spreads are fractions; the model counts them in sixtieths of a percent,
\* so that seconds / 60.0 * per-minute rate stays exact.
SpreadDen == 60 * 100

\* The schedule without its cap: the spread can pass the maximum.
get_iv_spread_uncapped(p, start_timestamp_sec, t) ==
    60 * p.init_iv_spread + (t - start_timestamp_sec) * p.iv_spread_per_min

\* params.rs:68-73, OptionAuctionParams::get_iv_spread, read at clock t.
get_iv_spread(p, start_timestamp_sec, t) ==
    LET sec_since_start == t - start_timestamp_sec
        spread == 60 * p.init_iv_spread + sec_since_start * p.iv_spread_per_min
    IN Min2(spread, 60 * p.max_iv_spread)

\* SpotAuctionParams::get_spot_spread (shared/params.rs): the spot spread
\* "widens linearly with elapsed minutes since auction start, capped at a
\* configured maximum spread".
get_spot_spread(p, start_timestamp_sec, t) ==
    LET sec_since_start == t - start_timestamp_sec
        spread == 60 * p.init_spot_spread + sec_since_start * p.spot_spread_per_min
    IN Min2(spread, 60 * p.max_spot_spread)

\* LimitOrderAuction::remain_sec (shared/auction.rs): the time left of the
\* auction's nominal duration.
remain_sec(a, t) == a.start_timestamp_sec + a.auction_sec - t

\* BigDecimal::fractional_digit_count of a step such as 1 or 0.1.
fractional_digit_count(v) ==
    CHOOSE d \in 0..FracDigits :
        /\ v % Pow10(FracDigits - d) = 0
        /\ \A e \in 0..(d - 1) : v % Pow10(FracDigits - e) # 0

\* BigDecimal::from_f64(x).round(digits) of x = num / den units, num >= 0.
\* The product is computed in f64, so a value exactly half way between two
\* steps may come out on either side.
round(num, den, digits) ==
    LET g == Pow10(FracDigits - digits)
        k == num \div (den * g)
        r == num - k * den * g
    IN IF 2 * r < den * g THEN {k * g}
       ELSE IF 2 * r > den * g THEN {(k + 1) * g}
       ELSE {k * g, (k + 1) * g}

\* with_scale_round(digits, RoundingMode::Down) of the quotient num / den.
with_scale_round_down(num, den, digits) ==
    ((num * Pow10(digits)) \div den) * Pow10(FracDigits - digits)

NoCash == [present |-> FALSE, amount |-> 0]

\* spot_auction.rs:16-45, get_desired_price: the prices it may return.
get_desired_price(p, ticker, cash_pos, start_timestamp_sec, t) ==
    IF ~cash_pos.present \/ cash_pos.amount = 0
    THEN {0}
    ELSE LET spread == get_spot_spread(p, start_timestamp_sec, t)
             factor == IF cash_pos.amount > 0
                       THEN SpreadDen + spread
                       ELSE SpreadDen - spread
             price == Max2(ticker.mark_price * factor, 0)
         IN {Max2(x, ticker.min_price) :
               x \in round(price, SpreadDen,
                           fractional_digit_count(ticker.tick_size))}

\* A strategy that takes every quotient for a sale.
direction_always_sell(amount_sign) == "Sell"

\* spot_auction.rs:68-71: the direction by the sign of cash / price.
direction_of(amount_sign) == IF amount_sign <= 0 THEN "Sell" ELSE "Buy"

\* A strategy that forgets the instrument's minimum.
below_minimum_never(amount, ticker) == FALSE

\* spot_auction.rs:83: amount < ticker.minimum_amount
below_minimum(amount, ticker) == amount < ticker.minimum_amount

Sign(x) == IF x < 0 THEN -1 ELSE IF x > 0 THEN 1 ELSE 0

NoOp == [direction |-> "Sell", amount |-> 0]

\* spot_auction.rs:67-82: |cash / price| rounded down to the amount step.
rounded_amount(ticker, cash_pos, price) ==
    with_scale_round_down(Abs(cash_pos.amount), Abs(price),
                          fractional_digit_count(ticker.amount_step))

\* spot_auction.rs:48-87, get_desired_amount.
get_desired_amount(p, ticker, cash_pos, price, remain) ==
    IF ~cash_pos.present \/ price = 0
    THEN NoOp
    ELSE IF remain <= 0 /\ cash_pos.amount > -p.max_cash
    THEN NoOp
    ELSE LET amount == rounded_amount(ticker, cash_pos, price)
         IN IF below_minimum(amount, ticker)
            THEN NoOp
            ELSE [direction |-> direction_of(Sign(cash_pos.amount) * Sign(price)),
                  amount |-> amount]

\* The grids explored: tick size and amount step 1 or 0.1, or both 0.5.
GridSet ==
    {g \in {Unit, Unit \div 10, Unit \div 2} \X {Unit, Unit \div 10, Unit \div 2} :
        (g[1] = Unit \div 2) <=> (g[2] = Unit \div 2)}

\* The spot tickers explored: mark price 5 or 10, a grid, minimum price one
\* tick or 6, minimum amount 1 or 2.
TickerSet ==
    {[mark_price |-> m * Unit, tick_size |-> g[1], min_price |-> mp,
      amount_step |-> g[2], minimum_amount |-> mn * Unit] :
        m \in {5, 10}, g \in GridSet, mp \in {0, 6 * Unit}, mn \in {1, 2}}

SpotTickers ==
    {[t EXCEPT !.min_price = IF t.min_price = 0 THEN t.tick_size ELSE t.min_price] :
        t \in TickerSet}

CashAmounts == {-100, -10, -7, 0, 7, 50}

CashPositions ==
    {NoCash} \cup {[present |-> TRUE, amount |-> c * Unit] : c \in CashAmounts}

SpotAuctionParamsSet ==
    {[max_cash |-> 10 * Unit, init_spot_spread |-> 0,
      spot_spread_per_min |-> 4, max_spot_spread |-> 10]}

OptionAuctionParamsSet ==
    {[init_iv_spread |-> 0, iv_spread_per_min |-> 1, max_iv_spread |-> 2]}

NoOrder == [direction |-> "none", amount |-> 0]

\* spot_auction.rs:17-18 and 54-55: Err("Ticker not found").
TickerNotFound == [direction |-> "err", amount |-> 0]

NotSeen == [cash |-> NoCash, price |-> 0, remain |-> 0]

\* One auction tick, first half: spot_auction.rs:16-45.
GetDesiredPrice ==
    /\ pc = "price"
    /\ IF ~market.has_ticker
       THEN /\ order' = TickerNotFound
            /\ pc' = "done"
            /\ UNCHANGED <<desired_price, priced>>
       ELSE /\ \E price \in get_desired_price(spot_params, market.ticker,
                                               market.cash,
                                               auction.start_timestamp_sec, now) :
                  desired_price' = price
            /\ priced' = market.cash
            /\ pc' = "amount"
            /\ UNCHANGED order
    /\ UNCHANGED <<authVars, vaultVars>>
    /\ UNCHANGED <<now, selVars, depVars, option_params, spot_params, auction,
                   market, seen, iv_spread, spot_spread>>

\* One auction tick, second half: spot_auction.rs:48-87.
GetDesiredAmount ==
    /\ pc = "amount"
    /\ IF ~market.has_ticker
       THEN /\ order' = TickerNotFound
            /\ UNCHANGED seen
       ELSE /\ order' = get_desired_amount(spot_params, market.ticker,
                                           market.cash, desired_price,
                                           remain_sec(auction, now))
            /\ seen' = [cash |-> market.cash, price |-> desired_price,
                        remain |-> remain_sec(auction, now)]
    /\ pc' = "done"
    /\ UNCHANGED <<authVars, vaultVars>>
    /\ UNCHANGED <<now, selVars, depVars, option_params, spot_params, auction,
                   market, priced, desired_price, iv_spread, spot_spread>>

\* The auction engine starts its next tick.
NextTick ==
    /\ pc = "done"
    /\ pc' = "price"
    /\ priced' = NoCash
    /\ desired_price' = 0
    /\ order' = NoOrder
    /\ seen' = NotSeen
    /\ UNCHANGED <<authVars, vaultVars>>
    /\ UNCHANGED <<now, selVars, depVars, option_params, spot_params, auction,
                   market, iv_spread, spot_spread>>

\* MarketSync replaces the cash position.
SyncPosition ==
    /\ \E c \in CashPositions : market' = [market EXCEPT !.cash = c]
    /\ UNCHANGED <<authVars, vaultVars>>
    /\ UNCHANGED <<now, selVars, depVars, option_params, spot_params, auction,
                   pc, priced, desired_price, order, seen, iv_spread,
                   spot_spread>>

\* MarketSync replaces the spot ticker: the first ticker arrives, or the
\* mark price moves.  Tick size, minimum price, amount step and minimum
\* amount belong to the instrument and stay.
SyncTicker ==
    /\ \E t \in SpotTickers :
          /\ t.tick_size = market.ticker.tick_size
          /\ t.min_price = market.ticker.min_price
          /\ t.amount_step = market.ticker.amount_step
          /\ t.minimum_amount = market.ticker.minimum_amount
          /\ market' = [market EXCEPT !.ticker = t, !.has_ticker = TRUE]
    /\ UNCHANGED <<authVars, vaultVars>>
    /\ UNCHANGED <<now, selVars, depVars, option_params, spot_params, auction,
                   pc, priced, desired_price, order, seen, iv_spread,
                   spot_spread>>

\* Time passes.
AdvanceClock ==
    /\ now < auction.start_timestamp_sec + MaxClockSteps * ClockStep
    /\ now' = now + ClockStep
    /\ UNCHANGED <<authVars, vaultVars>>
    /\ UNCHANGED <<selVars, depVars, aucVars>>

\* The spread schedules explored for the two auctions.
SpreadValues == 0..MaxSpread

SpreadRates == (-1)..MaxSpread

ClockReadings ==
    {SelectNow + k * ClockStep : k \in (-1)..MaxClockSteps}

\* An auction reads its spread at some clock reading: params.rs:68-73 and
\* the spot schedule.
ReadSpreads ==
    /\ \E t \in ClockReadings :
          /\ now' = t
          /\ iv_spread' = get_iv_spread(option_params,
                                        auction.start_timestamp_sec, t)
          /\ spot_spread' = get_spot_spread(spot_params,
                                            auction.start_timestamp_sec, t)
    /\ UNCHANGED <<authVars, vaultVars>>
    /\ UNCHANGED <<selVars, depVars, option_params, spot_params, auction,
                   market, pc, priced, desired_price, order, seen>>

\* ----------------------------------------------------------- OrderAuthorizer

\* orders.rs:133 and 134: the reject and the signature-expiry offsets, seconds.
REJECT_OFFSET_SEC == 5

SIGNATURE_EXPIRY_SEC == 600

\* How many authorizations one run builds.
MaxIssued == 2

\* The settlement contract's fixed-point scale and word width are 18
\* decimals and 256 bits; the model keeps the overflow at a smaller width.
FixedDecimals == 2

FixedBits == 12

RECURSIVE Pow2(_)
Pow2(n) == IF n <= 0 THEN 1 ELSE 2 * Pow2(n - 1)

\* What a conversion or a parse returns on failure.
Failed == [ok |-> FALSE, value |-> 0]

Ok(v) == [ok |-> TRUE, value |-> v]

\* crate::utils::decimal_to_i256 ("decimal amounts are converted to
\* signed/unsigned fixed-point integers at a fixed decimal scale";
\* "decimal-to-fixed-point overflow fails the authorization attempt").
decimal_to_i256(d) ==
    LET v == d * Pow10(FixedDecimals)
    IN IF v >= Pow2(FixedBits - 1) \/ v < -Pow2(FixedBits - 1)
       THEN Failed ELSE Ok(v)

\* crate::utils::decimal_to_u256: the unsigned conversion.
decimal_to_u256(d) ==
    LET v == d * Pow10(FixedDecimals)
    IN IF v >= Pow2(FixedBits) \/ v < 0 THEN Failed ELSE Ok(v)

\* The value of an environment variable or of a ticker's address string:
\* unset, not hexadecimal, or the hexadecimal text of `bytes` bytes.
Unset == [set |-> FALSE, hex |-> FALSE, bytes |-> 0]

NotHex == [set |-> TRUE, hex |-> FALSE, bytes |-> 0]

Hex(n) == [set |-> TRUE, hex |-> TRUE, bytes |-> n]

\* orders.rs:106, hex::const_decode_to_array::<32>: hexadecimal text of
\* exactly 32 bytes.
const_decode_to_array_32(v) == IF v.hex /\ v.bytes = 32 THEN Ok(v) ELSE Failed

\* orders.rs:108, hex::decode: hexadecimal text of any length.
hex_decode(v) == IF v.hex THEN Ok(v) ELSE Failed

\* orders.rs:36, 115, 118, str::parse::<Address>: hexadecimal text of
\* exactly 20 bytes.
parse_address(v) == IF v.hex /\ v.bytes = 20 THEN Ok(v) ELSE Failed

\* orders.rs:29-31, OrderTicker::get_max_fee.
get_max_fee(ticker) == 3 * ticker.taker_fee_rate * ticker.index_price

\* orders.rs:32-34, OrderTicker::get_sub_id: the sub id parses as a u128.
get_sub_id(ticker) ==
    IF ticker.base_asset_sub_id >= 0 THEN Ok(ticker.base_asset_sub_id) ELSE Failed

\* orders.rs:35-37, OrderTicker::get_address.
get_address(ticker) == parse_address(ticker.base_asset_address)

\* AbiEncode::encode of a struct: its fields in declaration order
\* (orders.rs:56-77), and ethers::utils::keccak256 of a byte string.
keccak256(bytes) == [keccak256 |-> bytes]

\* orders.rs:126: signer.sign_hash(typed_data_hash).
sign_hash(signer, hash) == [signer |-> signer, hash |-> hash]

\* How a call of get_order_signature ends.  A signature's text is the
\* one-element sequence of the signature; the empty string is <<>>.
SigErr(why) == [status |-> "err", why |-> why, signature |-> <<>>]

SigPanic(why) == [status |-> "panic", why |-> why, signature |-> <<>>]

\* A builder that passes Sell orders as bids.
is_bid_inverted(direction) == direction = "Sell"

\* orders.rs:173 and 221: params.direction == Direction::Buy
is_bid(direction) == direction = "Buy"

\* orders.rs:90-98 and 111-120: the two records that are hashed.
TradeData(address, sub_id, limit_price, amount, max_fee, subaccount_id, bid) ==
    <<address, sub_id, limit_price, amount, max_fee, subaccount_id, bid>>

ActionData(action_typehash, subaccount_id, nonce, module, data, expiry_ts, owner, signer) ==
    <<action_typehash, subaccount_id, nonce, module, data, expiry_ts, owner,
      signer>>

\* orders.rs:79-128, get_order_signature, under the environment e.  Every `?`
\* returns the error, every `expect` on an unset variable panics, in the
\* order of the code.
get_order_signature(e, subaccount_id, nonce, signature_expiry_sec, limit_price, amount, bid, max_fee, signer, ticker) ==
    IF ~get_address(ticker).ok THEN SigErr("address")
    ELSE IF ~get_sub_id(ticker).ok THEN SigErr("sub_id")
    ELSE IF ~decimal_to_i256(limit_price).ok THEN SigErr("limit_price")
    ELSE IF ~decimal_to_i256(amount).ok THEN SigErr("amount")
    ELSE IF ~decimal_to_u256(max_fee).ok THEN SigErr("max_fee")
    ELSE IF ~e.OWNER_PUBLIC_KEY.set THEN SigPanic("OWNER_PUBLIC_KEY")
    ELSE IF ~e.ACTION_TYPEHASH.set THEN SigPanic("ACTION_TYPEHASH")
    ELSE IF ~const_decode_to_array_32(e.ACTION_TYPEHASH).ok
         THEN SigErr("ACTION_TYPEHASH")
    ELSE IF ~e.DOMAIN_SEPARATOR.set THEN SigPanic("DOMAIN_SEPARATOR")
    ELSE IF ~hex_decode(e.DOMAIN_SEPARATOR).ok THEN SigErr("DOMAIN_SEPARATOR")
    ELSE IF ~e.TRADE_ADDRESS.set THEN SigPanic("TRADE_ADDRESS")
    ELSE IF ~parse_address(e.TRADE_ADDRESS).ok THEN SigErr("TRADE_ADDRESS")
    ELSE IF ~parse_address(e.OWNER_PUBLIC_KEY).ok THEN SigErr("OWNER_PUBLIC_KEY")
    ELSE LET trade_data ==
                 TradeData(get_address(ticker).value, get_sub_id(ticker).value,
                           decimal_to_i256(limit_price).value,
                           decimal_to_i256(amount).value,
                           decimal_to_u256(max_fee).value, subaccount_id, bid)
             hashed_data == keccak256(trade_data)
             action_data ==
                 ActionData(e.ACTION_TYPEHASH, subaccount_id, nonce,
                            e.TRADE_ADDRESS, hashed_data, signature_expiry_sec,
                            e.OWNER_PUBLIC_KEY, signer)
             action_hash == keccak256(action_data)
             typed_data_hash ==
                 keccak256(<<"1901", e.DOMAIN_SEPARATOR, action_hash>>)
         IN [status |-> "ok", why |-> "",
             signature |-> <<sign_hash(signer, typed_data_hash)>>]

\* orders.rs:130-136, get_timestamps, at the clock reading t (microseconds):
\* timestamp_micros, timestamp_millis of t + 5 s, timestamp of t + 600 s.
get_timestamps(t) ==
    [nonce |-> t,
     reject_timestamp |-> (t + REJECT_OFFSET_SEC * 1000000) \div 1000,
     signature_expiry_sec |-> (t + SIGNATURE_EXPIRY_SEC * 1000000) \div 1000000]

\* The wallet's address and the vault's subaccount.
Signer == "signer"

SubaccountIds == {9}

\* The tickers handed to the builders: the asset address parses or not, the
\* sub id parses or not, the fee is small or overflows the fixed point.
GoodTicker ==
    [instrument_name |-> "ETH-USDC", base_asset_address |-> Hex(20),
     base_asset_sub_id |-> 0, taker_fee_rate |-> 1, index_price |-> 2]

AuthTickers ==
    {GoodTicker,
     [GoodTicker EXCEPT !.base_asset_address = NotHex],
     [GoodTicker EXCEPT !.base_asset_sub_id = -1],
     [GoodTicker EXCEPT !.index_price = 400]}

\* orders.rs:46-54, OrderArgs: amounts and prices that convert or overflow.
OrderArgsSet ==
    {a \in [amount : {1, 50}, limit_price : {3, 50},
            direction : {"Buy", "Sell"}, time_in_force : {"gtc"},
            order_type : {"limit"}, label : {""}, mmp : {FALSE}] :
        a.amount = 1 \/ a.limit_price = 3}

\* The id of the resting order a replace names.
OrderIds == {7}

\* The environments a process may run in.
EnvSet ==
    [OWNER_PUBLIC_KEY : {Unset, NotHex, Hex(20)},
     ACTION_TYPEHASH : {Unset, NotHex, Hex(31), Hex(32)},
     DOMAIN_SEPARATOR : {Unset, NotHex, Hex(31), Hex(32)},
     TRADE_ADDRESS : {Unset, NotHex, Hex(20)}]

\* The readings of the wall clock, microseconds: the last of one second and
\* the first of the next.
MicrosReadings == {1999999, 2000000}

NoAttempt == [call |-> "none", status |-> "none", why |-> "", fixed_ok |-> TRUE]

\* Whether the three fixed-point conversions of a call succeed.
fixed_point_ok(ticker, args) ==
    /\ decimal_to_i256(args.limit_price).ok
    /\ decimal_to_i256(args.amount).ok
    /\ decimal_to_u256(get_max_fee(ticker)).ok

\* orders.rs:145-166: the OrderParams before signing.
OrderParams(ticker, subaccount_id, args, ts) ==
    [instrument_name |-> ticker.instrument_name,
     subaccount_id |-> subaccount_id,
     amount |-> args.amount,
     limit_price |-> args.limit_price,
     direction |-> args.direction,
     time_in_force |-> args.time_in_force,
     order_type |-> args.order_type,
     mmp |-> args.mmp,
     max_fee |-> get_max_fee(ticker),
     label |-> args.label,
     nonce |-> ts.nonce,
     reject_timestamp |-> ts.reject_timestamp,
     signature_expiry_sec |-> ts.signature_expiry_sec,
     signer |-> Signer,
     reduce_only |-> FALSE,
     replaced_order_id |-> <<>>,
     referral_code |-> "",
     signature |-> <<>>]

\* orders.rs:190-214: the ReplaceParams before signing.
ReplaceParams(ticker, subaccount_id, order_id_to_cancel, args, ts) ==
    [instrument_name |-> ticker.instrument_name,
     subaccount_id |-> subaccount_id,
     amount |-> args.amount,
     limit_price |-> args.limit_price,
     direction |-> args.direction,
     time_in_force |-> args.time_in_force,
     order_type |-> args.order_type,
     mmp |-> args.mmp,
     max_fee |-> get_max_fee(ticker),
     label |-> args.label,
     nonce |-> ts.nonce,
     reject_timestamp |-> ts.reject_timestamp,
     signature_expiry_sec |-> ts.signature_expiry_sec,
     signer |-> Signer,
     reduce_only |-> FALSE,
     replaced_order_id |-> <<>>,
     referral_code |-> "",
     signature |-> <<>>,
     expected_filled_amount |-> <<>>,
     nonce_to_cancel |-> <<>>,
     order_id_to_cancel |-> <<order_id_to_cancel>>]

\* orders.rs:167-179 and 215-227: sign the parameters just built and return
\* them with the signature, or return the signer's failure.
Signed(call, built, ticker, args) ==
    LET res == get_order_signature(env, built.subaccount_id, built.nonce,
                                   built.signature_expiry_sec,
                                   built.limit_price, built.amount,
                                   is_bid(built.direction), built.max_fee,
                                   Signer, ticker)
    IN /\ issued' = IF res.status = "ok"
                    THEN Append(issued, [built EXCEPT !.signature = res.signature])
                    ELSE issued
       /\ attempt' = [call |-> call, status |-> res.status, why |-> res.why,
                      fixed_ok |-> fixed_point_ok(ticker, args)]

\* orders.rs:138-180.
new_order_params ==
    /\ Len(issued) < MaxIssued
    /\ \E ticker \in AuthTickers, subaccount_id \in SubaccountIds,
          args \in OrderArgsSet :
          Signed("new_order_params",
                 OrderParams(ticker, subaccount_id, args, get_timestamps(clock)),
                 ticker, args)
    /\ UNCHANGED <<now, selVars, depVars, aucVars, vaultVars, clock, env>>

\* orders.rs:182-228.
new_replace_params ==
    /\ Len(issued) < MaxIssued
    /\ \E ticker \in AuthTickers, subaccount_id \in SubaccountIds,
          order_id_to_cancel \in OrderIds, args \in OrderArgsSet :
          Signed("new_replace_params",
                 ReplaceParams(ticker, subaccount_id, order_id_to_cancel, args,
                               get_timestamps(clock)),
                 ticker, args)
    /\ UNCHANGED <<now, selVars, depVars, aucVars, vaultVars, clock, env>>

\* The wall clock moves on to a later reading.
ClockAdvances ==
    /\ \E t \in MicrosReadings : t > clock /\ clock' = t
    /\ UNCHANGED <<now, selVars, depVars, aucVars, vaultVars, env, issued,
                   attempt>>

\* The system clock is stepped back (chrono::Utc::now is not monotonic).
ClockSetBack ==
    /\ \E t \in MicrosReadings : t < clock /\ clock' = t
    /\ UNCHANGED <<now, selVars, depVars, aucVars, vaultVars, env, issued,
                   attempt>>

\* --------------------------------------------------------- VaultStateMachine

\* stages.rs:7-13: the variants of the stage enum.
LRTCExecutorStage == {"SpotOnly", "OptionAuction", "AwaitSettlement", "SpotAuction"}

\* How many expiries the vault is followed through.
MaxCycles == 2

\* Seconds between two readings of the vault's clock.
VaultStepSec == 12 * 3600

\* params.rs:42-48
spot_auction_delay_sec(p) == p.spot_auction_delay_min * 60

option_auction_delay_sec(p) == p.option_auction_delay_min * 60

\* params.rs:50-56: when the two auctions may start, given the expiry of the
\* next option.
spot_auction_start(p, expiry_ts) ==
    expiry_ts - expiry_sec(p) + spot_auction_delay_sec(p)

option_auction_start(p, expiry_ts) ==
    expiry_ts - expiry_sec(p) + option_auction_delay_sec(p)

\* The vaults explored: the two delays are 0, 12 or 24 hours.
VaultParamsSet ==
    {[p EXCEPT !.spot_auction_delay_min = s, !.option_auction_delay_min = o] :
        p \in LRTCParamsSet, s \in {0, 720, 1440}, o \in {0, 720, 1440}}

\* A vault that goes from the option auction straight to the spot auction.
next_stage_skipping_settlement(s) ==
    CASE s = "SpotOnly" -> "OptionAuction"
      [] s = "OptionAuction" -> "SpotAuction"
      [] s = "AwaitSettlement" -> "SpotAuction"
      [] s = "SpotAuction" -> "SpotOnly"

\* LRTCExecutor (lrtc/executor.rs): "CollateralOnly -> OptionAuction ->
\* AwaitSettlement -> SpotAuction -> back to CollateralOnly".
next_stage(s) ==
    CASE s = "SpotOnly" -> "OptionAuction"
      [] s = "OptionAuction" -> "AwaitSettlement"
      [] s = "AwaitSettlement" -> "SpotAuction"
      [] s = "SpotAuction" -> "SpotOnly"

\* "Phase entry is gated by wall-clock offsets computed relative to the next
\* option's expiry timestamp": the option auction waits for its start, the
\* spot auction for the start that follows the settled expiry; an auction
\* ends when its engine is done.
stage_ready(s) ==
    CASE s = "SpotOnly" -> now >= option_auction_start(params, option_expiry)
      [] s = "OptionAuction" -> TRUE
      [] s = "AwaitSettlement" ->
            now >= spot_auction_start(params, option_expiry + expiry_sec(params))
      [] s = "SpotAuction" -> TRUE

\* The executor leaves its stage for the next one; settlement turns the
\* cycle to the next expiry.
AdvanceStage ==
    /\ stage_ready(stage)
    /\ stage' = next_stage(stage)
    /\ option_expiry' = IF stage = "AwaitSettlement"
                        THEN option_expiry + expiry_sec(params)
                        ELSE option_expiry
    /\ UNCHANGED <<now, selVars, depVars, aucVars, authVars>>

\* The vault's clock moves on.
VaultClock ==
    /\ now < SelectNow + MaxCycles * expiry_sec(params)
    /\ now' = now + VaultStepSec
    /\ UNCHANGED <<selVars, depVars, aucVars, authVars, vaultVars>>

\* ----------------------------------------------------------- specifications

\* The authorizer before any call, in a well-configured process.
IdleAuth ==
    /\ clock = 1999999
    /\ env = [OWNER_PUBLIC_KEY |-> Hex(20), ACTION_TYPEHASH |-> Hex(32),
              DOMAIN_SEPARATOR |-> Hex(32), TRADE_ADDRESS |-> Hex(20)]
    /\ issued = <<>>
    /\ attempt = NoAttempt

\* The vault at its start.
IdleVault ==
    /\ stage = "SpotOnly"
    /\ option_expiry = 0

\* The selector before any call, for the specifications of other components.
IdleSelector ==
    /\ params \in LRTCParamsSet
    /\ options_res = [i \in Instruments |->
                        [is_active |-> FALSE, option_type |-> "C",
                         expiry |-> SelectNow + 3600]]
    /\ tickers = [i \in Instruments |-> NoTicker]
    /\ expiry = 0
    /\ selected_option = NotCalled

IdleDeposit ==
    /\ block = StartBlock
    /\ initiated = <<>>
    /\ processed = {}
    /\ poll = NoPoll
    /\ drain = NoDrain

IdleAuction ==
    /\ option_params \in OptionAuctionParamsSet
    /\ spot_params \in SpotAuctionParamsSet
    /\ auction = [start_timestamp_sec |-> SelectNow, auction_sec |-> 2 * ClockStep]
    /\ market = [has_ticker |-> FALSE,
                 ticker |-> CHOOSE t \in SpotTickers : TRUE, cash |-> NoCash]
    /\ pc = "price"
    /\ priced = NoCash
    /\ desired_price = 0
    /\ order = NoOrder
    /\ seen = NotSeen
    /\ iv_spread = 0
    /\ spot_spread = 0

InitSelector ==
    /\ IdleAuth
    /\ IdleVault
    /\ IdleDeposit
    /\ IdleAuction
    /\ now = SelectNow
    /\ params \in LRTCParamsSet
    /\ options_res \in [Instruments -> CatalogRows]
    /\ tickers = [i \in Instruments |-> NoTicker]
    /\ expiry = 0
    /\ selected_option = NotCalled

NextSelector == select_option

SpecSelector == InitSelector /\ [][NextSelector]_vars

InitDeposit ==
    /\ IdleAuth
    /\ IdleVault
    /\ now = SelectNow
    /\ IdleSelector
    /\ IdleAuction
    /\ block = StartBlock
    /\ \E n \in 0..MaxDeposits :
          initiated = [k \in 1..n |-> [deposit_id |-> k, block |-> StartBlock]]
    /\ processed = {}
    /\ poll = NoPoll
    /\ drain = NoDrain

NextDeposit ==
    \/ process_deposit_events
    \/ InitiateDeposit
    \/ ProcessedElsewhere
    \/ MineBlocks

SpecDeposit == InitDeposit /\ [][NextDeposit]_vars

\* A backlog being drained: the deposits were initiated one lookback ago at
\* most, the first may have been processed by another keeper, no deposit is
\* initiated any more, and the reconciler's periodic task keeps polling.
InitDrain ==
    /\ IdleAuth
    /\ IdleVault
    /\ now = SelectNow
    /\ IdleSelector
    /\ IdleAuction
    /\ block = StartBlock + BlockStep
    /\ \E n \in 0..MaxDeposits :
          /\ initiated = [k \in 1..n |-> [deposit_id |-> k, block |-> StartBlock]]
          /\ \E done \in {{}, {[deposit_id |-> 1, block |-> StartBlock]}} :
                /\ done \subseteq Range(initiated)
                /\ processed = done
                /\ drain = [counting |-> TRUE, polls |-> 0,
                            backlog |-> n - Cardinality(done)]
    /\ poll = NoPoll

NextDrain == SuccessfulPoll

SpecDrain == InitDrain /\ [][NextDrain]_vars /\ WF_vars(SuccessfulPoll)

InitSpot ==
    /\ IdleAuth
    /\ IdleVault
    /\ now = SelectNow
    /\ IdleSelector
    /\ IdleDeposit
    /\ option_params \in OptionAuctionParamsSet
    /\ spot_params \in SpotAuctionParamsSet
    /\ auction = [start_timestamp_sec |-> SelectNow, auction_sec |-> 2 * ClockStep]
    /\ \E h \in BOOLEAN, t \in SpotTickers, c \in CashPositions :
          market = [has_ticker |-> h, ticker |-> t, cash |-> c]
    /\ pc = "price"
    /\ priced = NoCash
    /\ desired_price = 0
    /\ order = NoOrder
    /\ seen = NotSeen
    /\ iv_spread = 0
    /\ spot_spread = 0

NextSpot ==
    \/ GetDesiredPrice
    \/ GetDesiredAmount
    \/ NextTick
    \/ SyncPosition
    \/ SyncTicker
    \/ AdvanceClock

SpecSpot == InitSpot /\ [][NextSpot]_vars

InitSpread ==
    /\ IdleAuth
    /\ IdleVault
    /\ now = SelectNow
    /\ IdleSelector
    /\ IdleDeposit
    /\ \E i \in SpreadValues, r \in SpreadRates, m \in SpreadValues :
          option_params = [init_iv_spread |-> i, iv_spread_per_min |-> r,
                           max_iv_spread |-> m]
    /\ \E i \in SpreadValues, r \in SpreadRates, m \in SpreadValues :
          spot_params = [max_cash |-> 10 * Unit, init_spot_spread |-> i,
                         spot_spread_per_min |-> r, max_spot_spread |-> m]
    /\ auction = [start_timestamp_sec |-> SelectNow, auction_sec |-> 2 * ClockStep]
    /\ market = [has_ticker |-> FALSE,
                 ticker |-> CHOOSE t \in SpotTickers : TRUE, cash |-> NoCash]
    /\ pc = "price"
    /\ priced = NoCash
    /\ desired_price = 0
    /\ order = NoOrder
    /\ seen = NotSeen
    /\ iv_spread = get_iv_spread(option_params, SelectNow, SelectNow)
    /\ spot_spread = get_spot_spread(spot_params, SelectNow, SelectNow)

NextSpread == ReadSpreads

SpecSpread == InitSpread /\ [][NextSpread]_vars

\* The authorizer of one process: any environment, any sequence of calls.
InitAuth ==
    /\ now = SelectNow
    /\ IdleSelector
    /\ IdleDeposit
    /\ IdleAuction
    /\ IdleVault
    /\ clock = 1999999
    /\ env \in EnvSet
    /\ issued = <<>>
    /\ attempt = NoAttempt

NextAuth ==
    \/ new_order_params
    \/ new_replace_params
    \/ ClockAdvances
    \/ ClockSetBack

SpecAuth == InitAuth /\ [][NextAuth]_vars

\* The vault's lifecycle from its first SpotOnly stage.
InitVault ==
    /\ now = SelectNow
    /\ params \in VaultParamsSet
    /\ options_res = [i \in Instruments |->
                        [is_active |-> FALSE, option_type |-> "C",
                         expiry |-> SelectNow + 3600]]
    /\ tickers = [i \in Instruments |-> NoTicker]
    /\ expiry = 0
    /\ selected_option = NotCalled
    /\ IdleDeposit
    /\ IdleAuction
    /\ IdleAuth
    /\ stage = "SpotOnly"
    /\ option_expiry = SelectNow + expiry_sec(params)

NextVault ==
    \/ AdvanceStage
    \/ VaultClock

SpecVault == InitVault /\ [][NextVault]_vars

\* ---- claims about the OptionSelector

\* The tickers of the chosen bucket that carry option pricing.
PricedTickers ==
    {i \in Instruments : tickers[i].has_ticker /\ tickers[i].option_pricing}

\* Those of them whose live delta does not exceed the configured maximum.
UnderMaxDelta == {i \in PricedTickers : tickers[i].delta <= params.max_delta}

\* C1: once select_option has settled on a bucket, it returns the priced
\* ticker of that bucket whose delta is nearest to the target delta among
\* those not above the maximum delta, and fails if there is none.
C1_NearestUnderMaxDelta ==
    (selected_option # NotCalled /\ expiry # 0) =>
        IF UnderMaxDelta = {}
        THEN selected_option.status = "err"
        ELSE /\ selected_option.status = "ok"
             /\ selected_option.name \in UnderMaxDelta
             /\ \A j \in UnderMaxDelta :
                   Abs(tickers[selected_option.name].delta - params.target_delta)
                       <= Abs(tickers[j].delta - params.target_delta)

\* The active calls whose expiry lies between the minimum-expiry floor and
\* the expiry horizon, both ends included.
ExpiryWindow ==
    {i \in Instruments :
        /\ options_res[i].is_active
        /\ options_res[i].option_type = "C"
        /\ now + min_expiry_sec(params) <= options_res[i].expiry
        /\ options_res[i].expiry <= now + expiry_sec(params)}

\* C2: the bucket select_option uses is the latest expiry inside the window
\* [now + min_expiry, now + horizon]; the instrument returned expires inside
\* the window; with no such expiry the call fails.
C2_LatestExpiryInWindow ==
    (selected_option # NotCalled) =>
        /\ ExpiryWindow = {} =>
              (expiry = 0 /\ selected_option.status = "err")
        /\ ExpiryWindow # {} =>
              expiry = SetMax({options_res[i].expiry : i \in ExpiryWindow})
        /\ selected_option.status = "ok" =>
              selected_option.name \in ExpiryWindow

\* ---- claims about the DepositReconciler

\* C3: in every poll that computes a pending list, the pending ids are
\* exactly the initiated ids read minus the processed ids read, the batch
\* handed to process_deposits lies in that difference (no processed id is
\* submitted), and initiated <<1,2,3,4>> with processed {2,4} gives <<1,3>>.
C3_PendingIsInitiatedMinusProcessed ==
    /\ poll.outcome \in ComputedOutcomes =>
          /\ Range(poll.pending) = Range(poll.inits) \ poll.procs
          /\ Range(poll.batch) \subseteq Range(poll.inits) \ poll.procs
          /\ Range(poll.batch) \cap poll.procs = {}
    /\ pending_ids(<<1, 2, 3, 4>>, {2, 4}) = <<1, 3>>

\* A poll that read initiated <<1,2,3,4>> and processed {2,4} and sent <<1,3>>.
C3_Witness ==
    /\ poll.inits = <<1, 2, 3, 4>>
    /\ poll.procs = {2, 4}
    /\ poll.batch = <<1, 3>>
    /\ poll.txs = 1

\* C4: a poll sends at most one process-deposits transaction; it carries
\* min(|pending|, MAX_TO_PROCESS_PER_CALL) ids, never more than 32; with
\* nothing pending the poll returns Ok without estimating gas or sending.
C4_OneBoundedTransaction ==
    /\ poll.txs <= 1
    /\ poll.txs = 1 =>
          /\ Len(poll.batch) = Min2(Len(poll.pending), MAX_TO_PROCESS_PER_CALL)
          /\ Len(poll.batch) <= 32
    /\ (poll.outcome \in ComputedOutcomes /\ poll.pending = <<>>) =>
          /\ poll.outcome = "noop"
          /\ poll.estimates = 0
          /\ poll.txs = 0

\* A poll with more than 32 pending ids that sent its transaction.
C4_Witness ==
    /\ poll.txs = 1
    /\ Len(poll.pending) > MAX_TO_PROCESS_PER_CALL
    /\ Len(poll.batch) = MAX_TO_PROCESS_PER_CALL

\* C5 as stated: between two polls that computed a batch, the same logs
\* read give the same batch, and an id of the earlier batch is missing from
\* the later one only if the later poll read it in the processed log.
C5_LeavesOnlyWhenProcessed ==
    [][(poll.outcome \in ComputedOutcomes /\ poll'.outcome \in ComputedOutcomes) =>
          /\ (poll'.inits = poll.inits /\ poll'.procs = poll.procs) =>
                poll'.batch = poll.batch
          /\ \A id \in Range(poll.batch) \ Range(poll'.batch) :
                id \in poll'.procs]_vars

\* C5, amended: between two polls that computed a batch, the same logs read
\* give the same batch, and an id of the earlier batch is missing from the
\* later one only if the later poll read it in the processed log or no
\* longer read it in the initiated log (its event left the lookback window).
C5_SameLogsSameBatch ==
    [][(poll.outcome \in ComputedOutcomes /\ poll'.outcome \in ComputedOutcomes) =>
          /\ (poll'.inits = poll.inits /\ poll'.procs = poll.procs) =>
                poll'.batch = poll.batch
          /\ \A id \in Range(poll.batch) \ Range(poll'.batch) :
                id \in poll'.procs \/ id \notin Range(poll'.inits)]_vars

\* A poll that sent its batch right after a poll over the same logs failed.
C5_Witness ==
    /\ poll.retry
    /\ poll.txs = 1
    /\ poll.batch # <<>>

\* ---- claims about SpotRebalance

\* The two worked examples: cash -100 at price 10 sells 10, cash +50 at
\* price 5 buys 10, on every ticker explored, while the auction has time left.
SpotExamples ==
    \A p \in SpotAuctionParamsSet, t \in SpotTickers :
        /\ get_desired_amount(p, t, [present |-> TRUE, amount |-> -100 * Unit],
                              10 * Unit, ClockStep)
              = [direction |-> "Sell", amount |-> 10 * Unit]
        /\ get_desired_amount(p, t, [present |-> TRUE, amount |-> 50 * Unit],
                              5 * Unit, ClockStep)
              = [direction |-> "Buy", amount |-> 10 * Unit]

\* C6 as stated: at a positive price, get_desired_amount returns Sell for
\* negative cash and Buy for positive cash, and size 0 for cash that is zero
\* or absent.
C6_DirectionBySignAlways ==
    /\ (pc = "done" /\ seen.price > 0) =>
          /\ (seen.cash.present /\ seen.cash.amount < 0) => order.direction = "Sell"
          /\ (seen.cash.present /\ seen.cash.amount > 0) => order.direction = "Buy"
          /\ (~seen.cash.present \/ seen.cash.amount = 0) => order.amount = 0
    /\ SpotExamples

\* C6, amended: at a positive price, whenever get_desired_amount returns a
\* non-zero size the direction is Sell for negative cash and Buy for positive
\* cash; cash that is zero or absent yields size 0; the two examples hold
\* while the auction has time left.
C6_DirectionBySignOfOrders ==
    /\ (pc = "done" /\ seen.price > 0) =>
          /\ (order.amount # 0 /\ seen.cash.amount < 0) => order.direction = "Sell"
          /\ (order.amount # 0 /\ seen.cash.amount > 0) => order.direction = "Buy"
          /\ (~seen.cash.present \/ seen.cash.amount = 0) => order.amount = 0
    /\ SpotExamples

\* A tick that bought 10 for cash +50 at price 5.
C6_Witness ==
    /\ pc = "done"
    /\ seen.cash = [present |-> TRUE, amount |-> 50 * Unit]
    /\ seen.price = 5 * Unit
    /\ order = [direction |-> "Buy", amount |-> 10 * Unit]

\* C7: once the remaining time is <= 0, get_desired_amount returns size 0
\* when |cash| is inside the max_cash band, and a non-zero order when |cash|
\* is outside it, for either sign of cash (provided the size rounded to the
\* amount step reaches the instrument minimum).
C7_ToleranceOnMagnitude ==
    (pc = "done" /\ seen.remain <= 0 /\ seen.cash.present /\ seen.price # 0) =>
        /\ Abs(seen.cash.amount) < spot_params.max_cash => order.amount = 0
        /\ (/\ Abs(seen.cash.amount) > spot_params.max_cash
            /\ rounded_amount(market.ticker, seen.cash, seen.price)
                  >= market.ticker.minimum_amount)
              => order.amount # 0

\* C8: the size get_desired_amount returns is 0 or at least the instrument's
\* minimum order size.
C8_ZeroOrAtLeastMinimum ==
    (pc = "done" /\ order.direction \in {"Sell", "Buy"}) =>
        \/ order.amount = 0
        \/ order.amount >= market.ticker.minimum_amount

\* A tick with time left whose size, rounded to the step, was positive but
\* below the minimum, and which returned size 0.
C8_Witness ==
    /\ pc = "done"
    /\ seen.cash.present
    /\ seen.price > 0
    /\ seen.remain > 0
    /\ rounded_amount(market.ticker, seen.cash, seen.price) > 0
    /\ rounded_amount(market.ticker, seen.cash, seen.price)
          < market.ticker.minimum_amount
    /\ order.amount = 0

\* ---- claims about the spread schedules

\* C9 as stated: for every configuration, the spread read at elapsed 0 is
\* the initial spread, the schedule is non-decreasing in the clock reading,
\* and the spread never exceeds the maximum.
C9_ScheduleForAllConfigurations ==
    /\ now = auction.start_timestamp_sec =>
          /\ iv_spread = 60 * option_params.init_iv_spread
          /\ spot_spread = 60 * spot_params.init_spot_spread
    /\ \A t1, t2 \in ClockReadings :
          t1 <= t2 =>
             /\ get_iv_spread(option_params, auction.start_timestamp_sec, t1)
                   <= get_iv_spread(option_params, auction.start_timestamp_sec, t2)
             /\ get_spot_spread(spot_params, auction.start_timestamp_sec, t1)
                   <= get_spot_spread(spot_params, auction.start_timestamp_sec, t2)
    /\ iv_spread <= 60 * option_params.max_iv_spread
    /\ spot_spread <= 60 * spot_params.max_spot_spread

\* C9, amended: the spread read at elapsed 0 is the initial spread when the
\* initial spread does not exceed the maximum; the schedule is non-decreasing
\* in the clock reading when the per-minute rate is not negative; the spread
\* never exceeds the maximum.
C9_ScheduleOfOrderedConfigurations ==
    /\ now = auction.start_timestamp_sec =>
          /\ option_params.init_iv_spread <= option_params.max_iv_spread =>
                iv_spread = 60 * option_params.init_iv_spread
          /\ spot_params.init_spot_spread <= spot_params.max_spot_spread =>
                spot_spread = 60 * spot_params.init_spot_spread
    /\ \A t1, t2 \in ClockReadings :
          t1 <= t2 =>
             /\ option_params.iv_spread_per_min >= 0 =>
                   get_iv_spread(option_params, auction.start_timestamp_sec, t1)
                      <= get_iv_spread(option_params, auction.start_timestamp_sec, t2)
             /\ spot_params.spot_spread_per_min >= 0 =>
                   get_spot_spread(spot_params, auction.start_timestamp_sec, t1)
                      <= get_spot_spread(spot_params, auction.start_timestamp_sec, t2)
    /\ iv_spread <= 60 * option_params.max_iv_spread
    /\ spot_spread <= 60 * spot_params.max_spot_spread

\* An IV spread read after the start that has widened and reached its cap.
C9_Witness ==
    /\ now > auction.start_timestamp_sec
    /\ option_params.iv_spread_per_min > 0
    /\ option_params.init_iv_spread < option_params.max_iv_spread
    /\ iv_spread > 60 * option_params.init_iv_spread
    /\ iv_spread = 60 * option_params.max_iv_spread

\* ------------------------------------------------------- OrderAuthorizer claims

\* C11: any two authorizations built by new_order_params / new_replace_params
\* in one process carry distinct nonces, whatever the interleaving of the
\* calls and the readings of the clock.
C11_DistinctNonces ==
    \A i, j \in 1..Len(issued) :
        i # j => issued[i].nonce # issued[j].nonce

\* The configuration the signer needs: a 32-byte action typehash, a 32-byte
\* domain separator, and the 20-byte addresses of the module and the owner.
WellConfigured ==
    /\ env.ACTION_TYPEHASH = Hex(32)
    /\ env.DOMAIN_SEPARATOR = Hex(32)
    /\ env.TRADE_ADDRESS = Hex(20)
    /\ env.OWNER_PUBLIC_KEY = Hex(20)

\* C12: when the typehash, the domain separator, the module address or the
\* owner address is missing or malformed, or a fixed-point conversion fails,
\* the builders return no parameters; and no parameters are ever returned
\* with an empty signature.
C12_FailFast ==
    /\ attempt.status = "ok" => (WellConfigured /\ attempt.fixed_ok)
    /\ ~WellConfigured => issued = <<>>
    /\ \A k \in 1..Len(issued) : issued[k].signature # <<>>

\* ----------------------------------------------------- VaultStateMachine claims

\* C13: exactly one stage is active at any time, and the stage changes only
\* along the cycle SpotOnly -> OptionAuction -> AwaitSettlement -> SpotAuction
\* -> SpotOnly: SpotAuction is entered only from AwaitSettlement, and
\* OptionAuction never moves to SpotAuction or back to SpotOnly.
C13_StagesFollowTheCycle ==
    [][/\ stage \in LRTCExecutorStage
       /\ stage' \in LRTCExecutorStage
       /\ stage' # stage =>
             <<stage, stage'>> \in {<<"SpotOnly", "OptionAuction">>,
                                    <<"OptionAuction", "AwaitSettlement">>,
                                    <<"AwaitSettlement", "SpotAuction">>,
                                    <<"SpotAuction", "SpotOnly">>}]_vars

\* The vault has gone once round the cycle and is back in SpotOnly.
C13_Witness ==
    /\ stage = "SpotOnly"
    /\ option_expiry = SelectNow + 2 * expiry_sec(params)

\* --------------------------------------------------------- SpotRebalance claims

\* C14: the price and the (direction, size) of one tick are computed from the
\* same MarketState version, in particular from the same cash position, so
\* the direction that shifted the price (Buy up, Sell down) is the direction
\* returned with a non-zero size.
C14_OneSnapshotPerTick ==
    (pc = "done" /\ order.direction \in {"Sell", "Buy"} /\ order.amount # 0) =>
        /\ priced = seen.cash
        /\ order.direction = IF priced.amount > 0 THEN "Buy" ELSE "Sell"

\* C15: for every tick size and amount step, powers of ten or not, a
\* non-zero price is a multiple of the tick size and not below the minimum
\* price, and a non-zero size is the largest multiple of the amount step not
\* above |cash / price|.
C15_OutputsOnTheGrid ==
    (pc = "done" /\ order.direction \in {"Sell", "Buy"}) =>
        /\ desired_price # 0 =>
              /\ desired_price % market.ticker.tick_size = 0
              /\ desired_price >= market.ticker.min_price
        /\ order.amount # 0 =>
              /\ order.amount % market.ticker.amount_step = 0
              /\ order.amount * desired_price <= Abs(seen.cash.amount) * Unit
              /\ (order.amount + market.ticker.amount_step) * desired_price
                    > Abs(seen.cash.amount) * Unit

\* ----------------------------------------------------- DepositReconciler claims

\* C16: at every chain height, also below 100000, the poll computes its
\* from-block (the lookback start clamped at genesis) and goes on to query
\* the logs: it never aborts on the from-block.
C16_LookbackDefinedAtEveryHeight ==
    poll.outcome # "panic"

\* The initiated ids not yet processed, in the order of the initiated log.
Unprocessed ==
    SelectSeq([k \in 1..Len(initiated) |-> initiated[k].deposit_id],
              LAMBDA i : i \notin {e.deposit_id : e \in processed})

\* C17: with no new deposits, all pending deposits inside the lookback window
\* and every transaction succeeding, the polls reach an empty pending set;
\* every poll submits the first 32 pending ids in initiated-log order, which
\* then are processed and pending no more (so each id goes into exactly one
\* batch), and n pending deposits take ceil(n / 32) polls.
C17_BacklogDrains ==
    /\ <>(Unprocessed = <<>>)
    /\ [](Unprocessed = <<>> => drain.polls = (drain.backlog + 31) \div 32)
    /\ [][drain.polls' # drain.polls =>
             /\ poll'.batch = SubSeq(Unprocessed, 1, Min2(32, Len(Unprocessed)))
             /\ Unprocessed' = SubSeq(Unprocessed, Len(poll'.batch) + 1,
                                      Len(Unprocessed))]_vars

\* A backlog of more than 32 deposits has been drained by two polls.
C17_Witness ==
    /\ drain.backlog > 32
    /\ drain.polls = 2
    /\ Unprocessed = <<>>
    /\ poll.outcome = "ok"

\* ------------------------------------------------- signature binding (C18)

\* The digest the exchange recomputes from submitted parameters r: the trade
\* record of r's limit price, amount, max fee, subaccount and side, inside
\* the action record of r's subaccount, nonce and signature expiry.
SubmittedDigest(r) ==
    LET trade == <<GoodTicker.base_asset_address, GoodTicker.base_asset_sub_id,
                   decimal_to_i256(r.limit_price).value,
                   decimal_to_i256(r.amount).value,
                   decimal_to_u256(r.max_fee).value,
                   r.subaccount_id, r.direction = "Buy">>
        action == <<env.ACTION_TYPEHASH, r.subaccount_id, r.nonce,
                    env.TRADE_ADDRESS, [keccak256 |-> trade],
                    r.signature_expiry_sec, env.OWNER_PUBLIC_KEY, r.signer>>
    IN [keccak256 |-> <<"1901", env.DOMAIN_SEPARATOR, [keccak256 |-> action]>>]

\* C18: the signature of every returned OrderParams / ReplaceParams is the
\* signer's signature over exactly that object's subaccount id, nonce,
\* signature expiry, limit price, amount and max fee, with is_bid =
\* (direction = Buy); the reject timestamp is no part of the digest; and a
\* replace carries the id of the order it replaces.
C18_SignatureBindsParameters ==
    \A k \in 1..Len(issued) :
        LET r == issued[k]
        IN /\ r.signature = <<[signer |-> r.signer, hash |-> SubmittedDigest(r)]>>
           /\ "order_id_to_cancel" \in DOMAIN r =>
                 r.order_id_to_cancel \in {<<id>> : id \in OrderIds}

\* An order to sell and a replace to buy have been returned.
C18_Witness ==
    \E i, j \in 1..Len(issued) :
        /\ "order_id_to_cancel" \in DOMAIN issued[i]
        /\ issued[i].direction = "Buy"
        /\ "order_id_to_cancel" \notin DOMAIN issued[j]
        /\ issued[j].direction = "Sell"

====
